---- MODULE Spec2Model ----
(***************************************************************************)
(* Model of cmd/kpod/create_cli.go: the resource-limit validator           *)
(* verifyContainerResources and the volume-spec validator parseVolumes.    *)
(*                                                                         *)
(* A call of verifyContainerResources is one step of the state machine:    *)
(* it reads config.resources, the capability report sysInfo and the update *)
(* flag, and leaves the (possibly downgraded) resources, the returned      *)
(* warnings and the returned error.  The validator may be called again on  *)
(* the limits it returned.                                                 *)
(***************************************************************************)
EXTENDS Integers, Sequences, FiniteSets, TLC

VARIABLES
    resources,     \* config.resources, mutated in place by the validator
    sysInfo,       \* the capability report of the host
    update,        \* the update flag of the calls
    warnings,      \* the warnings returned by the last call
    err,           \* the error returned by the last call
    before,        \* the resources the last call was given
    prevWarnings,  \* the warnings returned by the call before the last
    prevErr,       \* the error returned by the call before the last
    calls,         \* the number of calls made
    volumes,       \* the volume strings given to parseVolumes
    volErr         \* the outcome of parseVolumes

vars == <<resources, sysInfo, update, warnings, err, before, prevWarnings,
          prevErr, calls, volumes, volErr>>

linuxMinMemory == 4194304

----------------------------------------------------------------------------
(* Bounds of the model *)

\* at most MaxSet fields of a request differ from the unset value
MaxSet == 2
\* at most MaxAbsent capabilities are missing from a capability report
MaxAbsent == 2
\* the validator is called at most MaxCalls times on the same limits
MaxCalls == 2
\* a volume option list has at most MaxOpts options
MaxOpts == 3

----------------------------------------------------------------------------
(* The resource request: config.resources *)

FieldNames ==
    {"memory", "memorySwap", "memorySwappiness", "memoryReservation",
     "kernelMemory", "disableOomKiller", "pidsLimit", "cpuShares",
     "cpuPeriod", "cpuQuota", "cpusetCpus", "cpusetMems", "blkioWeight",
     "blkioWeightDevice", "deviceReadBps", "deviceWriteBps",
     "deviceReadIOps", "deviceWriteIOps"}

\* the request in which nothing is set
Unset ==
    [memory |-> 0, memorySwap |-> 0, memorySwappiness |-> -1,
     memoryReservation |-> 0, kernelMemory |-> 0, disableOomKiller |-> FALSE,
     pidsLimit |-> 0, cpuShares |-> 0, cpuPeriod |-> 0, cpuQuota |-> 0,
     cpusetCpus |-> "", cpusetMems |-> "", blkioWeight |-> 0,
     blkioWeightDevice |-> <<>>, deviceReadBps |-> <<>>,
     deviceWriteBps |-> <<>>, deviceReadIOps |-> <<>>,
     deviceWriteIOps |-> <<>>]

\* the values a request may give to each field (besides the unset value)
Choices ==
    [memory |-> <<-1, linuxMinMemory - 1, linuxMinMemory, 2 * linuxMinMemory>>,
     memorySwap |-> <<-1, linuxMinMemory, 3 * linuxMinMemory>>,
     memorySwappiness |-> <<-2, 0, 100, 101>>,
     memoryReservation |-> <<-1, linuxMinMemory - 1, linuxMinMemory,
                             2 * linuxMinMemory>>,
     kernelMemory |-> <<-1, linuxMinMemory - 1, linuxMinMemory>>,
     disableOomKiller |-> <<TRUE>>,
     pidsLimit |-> <<-1, 100>>,
     cpuShares |-> <<2, 512>>,
     cpuPeriod |-> <<500, 999, 1000, 1000000, 1000001>>,
     cpuQuota |-> <<-1, 999, 1000>>,
     cpusetCpus |-> <<"0-1", "7", "x">>,
     cpusetMems |-> <<"0", "7", "x">>,
     blkioWeight |-> <<9, 10, 1000, 1001>>,
     blkioWeightDevice |-> << <<"/dev/sda:500">> >>,
     deviceReadBps |-> << <<"/dev/sda:1mb">> >>,
     deviceWriteBps |-> << <<"/dev/sda:1mb">> >>,
     deviceReadIOps |-> << <<"/dev/sda:1000">> >>,
     deviceWriteIOps |-> << <<"/dev/sda:1000">> >>]

MaxChoice ==
    LET lens == { Len(Choices[f]) : f \in FieldNames }
    IN  CHOOSE m \in lens : \A l \in lens : l <= m

\* the requests that set exactly the fields of F
RequestsSetting(F) ==
    { [f \in FieldNames |-> IF f \in F THEN Choices[f][g[f]] ELSE Unset[f]] :
        g \in { h \in [F -> 1..MaxChoice] :
                  \A f \in F : h[f] <= Len(Choices[f]) } }

Requests ==
    UNION { RequestsSetting(F) :
              F \in { G \in SUBSET FieldNames : Cardinality(G) <= MaxSet } }

----------------------------------------------------------------------------
(* The capability report: sysinfo.New(true) *)

CapNames ==
    {"MemoryLimit", "SwapLimit", "MemorySwappiness", "MemoryReservation",
     "KernelMemory", "OomKillDisable", "PidsLimit", "CPUShares",
     "CPUCfsPeriod", "CPUCfsQuota", "Cpuset", "BlkioWeight",
     "BlkioWeightDevice", "BlkioReadBpsDevice", "BlkioWriteBpsDevice",
     "BlkioReadIOpsDevice", "BlkioWriteIOpsDevice"}

Reports ==
    { [c \in CapNames |-> c \notin A] :
        A \in { B \in SUBSET CapNames : Cardinality(B) <= MaxAbsent } }

\* the CPUs and memory nodes of the host (sysInfo.Cpus, sysInfo.Mems)
Cpus == {0, 1}
Mems == {0}

\* the cpuset list syntax: the set a list string denotes, or a parse error
ParseUintList(s) ==
    CASE s = ""    -> [ok |-> TRUE, set |-> {}]
      [] s = "0"   -> [ok |-> TRUE, set |-> {0}]
      [] s = "0-1" -> [ok |-> TRUE, set |-> {0, 1}]
      [] s = "7"   -> [ok |-> TRUE, set |-> {7}]
      [] OTHER     -> [ok |-> FALSE, set |-> {}]

IsCpusetCpusAvailable(s) ==
    LET p == ParseUintList(s)
    IN  [err |-> ~p.ok, available |-> p.ok /\ p.set \subseteq Cpus]

IsCpusetMemsAvailable(s) ==
    LET p == ParseUintList(s)
    IN  [err |-> ~p.ok, available |-> p.ok /\ p.set \subseteq Mems]

----------------------------------------------------------------------------
(* Warnings and errors of verifyContainerResources *)

WarnMemoryLimit == "Your kernel does not support memory limit capabilities or the cgroup is not mounted. Limitation discarded."
WarnSwapLimit == "Your kernel does not support swap limit capabilities,or the cgroup is not mounted. Memory limited without swap."
WarnMemorySwappiness == "Your kernel does not support memory swappiness capabilities, or the cgroup is not mounted. Memory swappiness discarded."
WarnMemoryReservation == "Your kernel does not support memory soft limit capabilities or the cgroup is not mounted. Limitation discarded."
WarnKernelMemory == "Your kernel does not support kernel memory limit capabilities or the cgroup is not mounted. Limitation discarded."
WarnOomKillDisable == "Your kernel does not support OomKillDisable. OomKillDisable discarded."
WarnPidsLimit == "Your kernel does not support pids limit capabilities or the cgroup is not mounted. PIDs limit discarded."
WarnCPUShares == "Your kernel does not support CPU shares or the cgroup is not mounted. Shares discarded."
WarnCPUCfsPeriod == "Your kernel does not support CPU cfs period or the cgroup is not mounted. Period discarded."
WarnCPUCfsQuota == "Your kernel does not support CPU cfs quota or the cgroup is not mounted. Quota discarded."
WarnCpuset == "Your kernel does not support cpuset or the cgroup is not mounted. Cpuset discarded."
WarnBlkioWeight == "Your kernel does not support Block I/O weight or the cgroup is not mounted. Weight discarded."
WarnBlkioWeightDevice == "Your kernel does not support Block I/O weight_device or the cgroup is not mounted. Weight-device discarded."
WarnBlkioReadBpsDevice == "Your kernel does not support BPS Block I/O read limit or the cgroup is not mounted. Block I/O BPS read limit discarded"
WarnBlkioWriteBpsDevice == "Your kernel does not support BPS Block I/O write limit or the cgroup is not mounted. Block I/O BPS write limit discarded."
WarnBlkioReadIOpsDevice == "Your kernel does not support IOPS Block read limit or the cgroup is not mounted. Block I/O IOPS read limit discarded."
WarnBlkioWriteIOpsDevice == "Your kernel does not support IOPS Block I/O write limit or the cgroup is not mounted. Block I/O IOPS write limit discarded."

nil == "nil"
ErrMinMemory == "minimum memory limit allowed is 4MB"
ErrSwapOrder == "minimum memoryswap limit should be larger than memory limit, see usage"
ErrSwapWithoutMemory == "you should always set the Memory limit when using Memoryswap limit, see usage"
ErrSwappinessRange == "invalid value: %v, valid memory swappiness range is 0-100"
ErrMinReservation == "minimum memory reservation allowed is 4MB"
ErrMemoryBelowReservation == "minimum memory limit can not be less than memory reservation limit, see usage"
ErrMinKernelMemory == "minimum kernel memory limit allowed is 4MB"
ErrCpuPeriodRange == "CPU cfs period can not be less than 1ms (i.e. 1000) or larger than 1s (i.e. 1000000)"
ErrCpuQuotaMin == "CPU cfs quota can not be less than 1ms (i.e. 1000)"
ErrCpusInvalid == "invalid value %s for cpuset cpus"
ErrCpusUnavailable == "requested CPUs are not available - requested %s, available: %s"
ErrMemsInvalid == "invalid value %s for cpuset mems"
ErrMemsUnavailable == "requested memory nodes are not available - requested %s, available: %s"
ErrBlkioWeightRange == "range of blkio weight is from 10 to 1000"

\* append whose result is dropped
addWarningDropped(ws, msg) == ws

addWarning(ws, msg) == Append(ws, msg)

----------------------------------------------------------------------------
(* The cascade of verifyContainerResources.  A cascade state s holds the   *)
(* resources as mutated so far, the warnings collected so far and the      *)
(* error to return (nil while none was found).  Each operator below is one *)
(* if-statement (or one group of them on the same limit) of the function.  *)

Fail(s, e) == [s EXCEPT !.err = e]

Downgrade(s, msg, f, v) ==
    [s EXCEPT !.warnings = addWarning(s.warnings, msg), !.res[f] = v]

\* the minimum checked only where the limit is supported
MinMemoryCheckIfSupported(s, si, upd) ==
    IF s.res.memory # 0 /\ s.res.memory < linuxMinMemory /\ si.MemoryLimit
    THEN Fail(s, ErrMinMemory) ELSE s

MinMemoryCheck(s, si, upd) ==
    IF s.res.memory # 0 /\ s.res.memory < linuxMinMemory
    THEN Fail(s, ErrMinMemory) ELSE s

\* the downgrade that leaves the swap limit as it was
MemoryLimitDowngradeKeepSwap(s, si, upd) ==
    IF s.res.memory > 0 /\ ~si.MemoryLimit
    THEN Downgrade(s, WarnMemoryLimit, "memory", 0) ELSE s

MemoryLimitDowngrade(s, si, upd) ==
    IF s.res.memory > 0 /\ ~si.MemoryLimit
    THEN [s EXCEPT !.warnings = addWarning(s.warnings, WarnMemoryLimit),
                   !.res.memory = 0, !.res.memorySwap = -1]
    ELSE s

SwapLimitDowngrade(s, si, upd) ==
    IF s.res.memory > 0 /\ s.res.memorySwap # -1 /\ ~si.SwapLimit
    THEN Downgrade(s, WarnSwapLimit, "memorySwap", -1) ELSE s

\* the comparison the wrong way round
SwapOrderCheckReversed(s, si, upd) ==
    IF s.res.memory > 0 /\ s.res.memorySwap > 0
       /\ s.res.memorySwap > s.res.memory
    THEN Fail(s, ErrSwapOrder) ELSE s

SwapOrderCheck(s, si, upd) ==
    IF s.res.memory > 0 /\ s.res.memorySwap > 0
       /\ s.res.memorySwap < s.res.memory
    THEN Fail(s, ErrSwapOrder) ELSE s

SwapWithoutMemoryCheck(s, si, upd) ==
    IF s.res.memory = 0 /\ s.res.memorySwap > 0 /\ ~upd
    THEN Fail(s, ErrSwapWithoutMemory) ELSE s

\* the downgrade to 0 instead of the unset value -1
SwappinessCheckZero(s, si, upd) ==
    IF s.res.memorySwappiness # -1
    THEN IF ~si.MemorySwappiness
         THEN Downgrade(s, WarnMemorySwappiness, "memorySwappiness", 0)
         ELSE LET swappiness == s.res.memorySwappiness
              IN  IF swappiness < -1 \/ swappiness > 100
                  THEN Fail(s, ErrSwappinessRange) ELSE s
    ELSE s

SwappinessCheck(s, si, upd) ==
    IF s.res.memorySwappiness # -1
    THEN IF ~si.MemorySwappiness
         THEN Downgrade(s, WarnMemorySwappiness, "memorySwappiness", -1)
         ELSE LET swappiness == s.res.memorySwappiness
              IN  IF swappiness < -1 \/ swappiness > 100
                  THEN Fail(s, ErrSwappinessRange) ELSE s
    ELSE s

ReservationDowngrade(s, si, upd) ==
    IF s.res.memoryReservation > 0 /\ ~si.MemoryReservation
    THEN Downgrade(s, WarnMemoryReservation, "memoryReservation", 0) ELSE s

MinReservationCheck(s, si, upd) ==
    IF s.res.memoryReservation > 0 /\ s.res.memoryReservation < linuxMinMemory
    THEN Fail(s, ErrMinReservation) ELSE s

MemoryBelowReservationCheck(s, si, upd) ==
    IF s.res.memory > 0 /\ s.res.memoryReservation > 0
       /\ s.res.memory < s.res.memoryReservation
    THEN Fail(s, ErrMemoryBelowReservation) ELSE s

KernelMemoryDowngrade(s, si, upd) ==
    IF s.res.kernelMemory > 0 /\ ~si.KernelMemory
    THEN Downgrade(s, WarnKernelMemory, "kernelMemory", 0) ELSE s

MinKernelMemoryCheck(s, si, upd) ==
    IF s.res.kernelMemory > 0 /\ s.res.kernelMemory < linuxMinMemory
    THEN Fail(s, ErrMinKernelMemory) ELSE s

OomKillDisableDowngrade(s, si, upd) ==
    IF s.res.disableOomKiller = TRUE /\ ~si.OomKillDisable
    THEN Downgrade(s, WarnOomKillDisable, "disableOomKiller", FALSE) ELSE s

PidsLimitDowngrade(s, si, upd) ==
    IF s.res.pidsLimit # 0 /\ ~si.PidsLimit
    THEN Downgrade(s, WarnPidsLimit, "pidsLimit", 0) ELSE s

CPUSharesDowngrade(s, si, upd) ==
    IF s.res.cpuShares > 0 /\ ~si.CPUShares
    THEN Downgrade(s, WarnCPUShares, "cpuShares", 0) ELSE s

CPUCfsPeriodDowngrade(s, si, upd) ==
    IF s.res.cpuPeriod > 0 /\ ~si.CPUCfsPeriod
    THEN Downgrade(s, WarnCPUCfsPeriod, "cpuPeriod", 0) ELSE s

\* the range check without its lower end
CpuPeriodRangeCheckNoFloor(s, si, upd) ==
    IF s.res.cpuPeriod # 0 /\ s.res.cpuPeriod > 1000000
    THEN Fail(s, ErrCpuPeriodRange) ELSE s

CpuPeriodRangeCheck(s, si, upd) ==
    IF s.res.cpuPeriod # 0
       /\ (s.res.cpuPeriod < 1000 \/ s.res.cpuPeriod > 1000000)
    THEN Fail(s, ErrCpuPeriodRange) ELSE s

CPUCfsQuotaDowngrade(s, si, upd) ==
    IF s.res.cpuQuota > 0 /\ ~si.CPUCfsQuota
    THEN Downgrade(s, WarnCPUCfsQuota, "cpuQuota", 0) ELSE s

CpuQuotaMinCheck(s, si, upd) ==
    IF s.res.cpuQuota > 0 /\ s.res.cpuQuota < 1000
    THEN Fail(s, ErrCpuQuotaMin) ELSE s

CpusetDowngrade(s, si, upd) ==
    IF (s.res.cpusetCpus # "" \/ s.res.cpusetMems # "") /\ ~si.Cpuset
    THEN [s EXCEPT !.warnings = addWarning(s.warnings, WarnCpuset),
                   !.res.cpusetCpus = "", !.res.cpusetMems = ""]
    ELSE s

CpusAvailableCheck(s, si, upd) ==
    LET r == IsCpusetCpusAvailable(s.res.cpusetCpus)
    IN  IF r.err THEN Fail(s, ErrCpusInvalid)
        ELSE IF ~r.available THEN Fail(s, ErrCpusUnavailable) ELSE s

MemsAvailableCheck(s, si, upd) ==
    LET r == IsCpusetMemsAvailable(s.res.cpusetMems)
    IN  IF r.err THEN Fail(s, ErrMemsInvalid)
        ELSE IF ~r.available THEN Fail(s, ErrMemsUnavailable) ELSE s

BlkioWeightDowngrade(s, si, upd) ==
    IF s.res.blkioWeight > 0 /\ ~si.BlkioWeight
    THEN Downgrade(s, WarnBlkioWeight, "blkioWeight", 0) ELSE s

BlkioWeightRangeCheck(s, si, upd) ==
    IF s.res.blkioWeight > 0
       /\ (s.res.blkioWeight < 10 \/ s.res.blkioWeight > 1000)
    THEN Fail(s, ErrBlkioWeightRange) ELSE s

BlkioWeightDeviceDowngrade(s, si, upd) ==
    IF Len(s.res.blkioWeightDevice) > 0 /\ ~si.BlkioWeightDevice
    THEN Downgrade(s, WarnBlkioWeightDevice, "blkioWeightDevice", <<>>)
    ELSE s

DeviceReadBpsDowngrade(s, si, upd) ==
    IF Len(s.res.deviceReadBps) > 0 /\ ~si.BlkioReadBpsDevice
    THEN Downgrade(s, WarnBlkioReadBpsDevice, "deviceReadBps", <<>>) ELSE s

DeviceWriteBpsDowngrade(s, si, upd) ==
    IF Len(s.res.deviceWriteBps) > 0 /\ ~si.BlkioWriteBpsDevice
    THEN Downgrade(s, WarnBlkioWriteBpsDevice, "deviceWriteBps", <<>>) ELSE s

DeviceReadIOpsDowngrade(s, si, upd) ==
    IF Len(s.res.deviceReadIOps) > 0 /\ ~si.BlkioReadIOpsDevice
    THEN Downgrade(s, WarnBlkioReadIOpsDevice, "deviceReadIOps", <<>>) ELSE s

DeviceWriteIOpsDowngrade(s, si, upd) ==
    IF Len(s.res.deviceWriteIOps) > 0 /\ ~si.BlkioWriteIOpsDevice
    THEN Downgrade(s, WarnBlkioWriteIOpsDevice, "deviceWriteIOps", <<>>)
    ELSE s

NumSteps == 28

\* the k-th statement of the function, in source order
Step(k, s, si, upd) ==
    CASE k = 1  -> MinMemoryCheck(s, si, upd)
      [] k = 2  -> MemoryLimitDowngrade(s, si, upd)
      [] k = 3  -> SwapLimitDowngrade(s, si, upd)
      [] k = 4  -> SwapOrderCheck(s, si, upd)
      [] k = 5  -> SwapWithoutMemoryCheck(s, si, upd)
      [] k = 6  -> SwappinessCheck(s, si, upd)
      [] k = 7  -> ReservationDowngrade(s, si, upd)
      [] k = 8  -> MinReservationCheck(s, si, upd)
      [] k = 9  -> MemoryBelowReservationCheck(s, si, upd)
      [] k = 10 -> KernelMemoryDowngrade(s, si, upd)
      [] k = 11 -> MinKernelMemoryCheck(s, si, upd)
      [] k = 12 -> OomKillDisableDowngrade(s, si, upd)
      [] k = 13 -> PidsLimitDowngrade(s, si, upd)
      [] k = 14 -> CPUSharesDowngrade(s, si, upd)
      [] k = 15 -> CPUCfsPeriodDowngrade(s, si, upd)
      [] k = 16 -> CpuPeriodRangeCheck(s, si, upd)
      [] k = 17 -> CPUCfsQuotaDowngrade(s, si, upd)
      [] k = 18 -> CpuQuotaMinCheck(s, si, upd)
      [] k = 19 -> CpusetDowngrade(s, si, upd)
      [] k = 20 -> CpusAvailableCheck(s, si, upd)
      [] k = 21 -> MemsAvailableCheck(s, si, upd)
      [] k = 22 -> BlkioWeightDowngrade(s, si, upd)
      [] k = 23 -> BlkioWeightRangeCheck(s, si, upd)
      [] k = 24 -> BlkioWeightDeviceDowngrade(s, si, upd)
      [] k = 25 -> DeviceReadBpsDowngrade(s, si, upd)
      [] k = 26 -> DeviceWriteBpsDowngrade(s, si, upd)
      [] k = 27 -> DeviceReadIOpsDowngrade(s, si, upd)
      [] k = 28 -> DeviceWriteIOpsDowngrade(s, si, upd)

\* a hard error that is recorded without returning
ReturnedNever(s) == FALSE

\* a statement that finds a hard error returns: the statements after it
\* are not executed
Returned(s) == s.err # nil

RECURSIVE Cascade(_, _, _, _)
Cascade(k, s, si, upd) ==
    IF k > NumSteps \/ Returned(s) THEN s
    ELSE Cascade(k + 1, Step(k, s, si, upd), si, upd)

verifyContainerResources(res, si, upd) ==
    Cascade(1, [res |-> res, warnings |-> <<>>, err |-> nil], si, upd)

----------------------------------------------------------------------------
(* The state machine of the resource validator *)

Init ==
    /\ resources \in Requests
    /\ sysInfo \in Reports
    /\ update \in BOOLEAN
    /\ warnings = <<>>
    /\ err = nil
    /\ before = resources
    /\ prevWarnings = <<>>
    /\ prevErr = nil
    /\ calls = 0
    /\ volumes = <<>>
    /\ volErr = "pending"

\* one call verifyContainerResources(config, update)
Verify ==
    /\ calls < MaxCalls
    /\ \E r \in {verifyContainerResources(resources, sysInfo, update)} :
          /\ resources' = r.res
          /\ warnings' = r.warnings
          /\ err' = r.err
    /\ before' = resources
    /\ prevWarnings' = warnings
    /\ prevErr' = err
    /\ calls' = calls + 1
    /\ UNCHANGED <<sysInfo, update, volumes, volErr>>

Next == Verify

Spec == Init /\ [][Next]_vars

----------------------------------------------------------------------------
(* Volume specifications.  A string is a sequence of tokens: the           *)
(* separators ":" and ",", the path separator "/", and words (runs of      *)
(* other characters), so that splitting and indexing act on the string.    *)

\* strings.Split(s, sep): the pieces of s between the occurrences of sep
RECURSIVE Split(_, _)
Split(s, sep) ==
    IF \E i \in 1..Len(s) : s[i] = sep
    THEN LET i == CHOOSE j \in 1..Len(s) :
                    s[j] = sep /\ \A h \in 1..(j - 1) : s[h] # sep
         IN  <<SubSeq(s, 1, i - 1)>> \o Split(SubSeq(s, i + 1, Len(s)), sep)
    ELSE <<s>>

\* strings.SplitN(s, sep, n) for n > 0: at most n pieces, the last one
\* being the unsplit remainder
RECURSIVE SplitN(_, _, _)
SplitN(s, sep, n) ==
    IF n > 1 /\ \E i \in 1..Len(s) : s[i] = sep
    THEN LET i == CHOOSE j \in 1..Len(s) :
                    s[j] = sep /\ \A h \in 1..(j - 1) : s[h] # sep
         IN  <<SubSeq(s, 1, i - 1)>>
                 \o SplitN(SubSeq(s, i + 1, Len(s)), sep, n - 1)
    ELSE <<s>>

\* the directories of the host for which os.Stat succeeds
ExistingDirs == { <<"/", "tmp">> }

ErrVolumeFormat == "incorrect volume format %q, should be host-dir:ctr-dir:[option]"
ErrHostDir == "error checking path %q"
ErrCtrDir == "invalid container directory path %q"
ErrOptsRWRO == "invalid options %q, can only specify 1 'rw' or 'ro' option"
ErrOptsLabel == "invalid options %q, can only specify 1 'z' or 'Z' option"
ErrOptsPropagation == "invalid options %q, can only specify 1 '[r]shared', '[r]private' or '[r]slave' option"
ErrOptType == "invalid option type %q"
\* the run-time panic of an index expression out of range
PanicIndex == "panic: runtime error: index out of range"

validateVolumeHostDir(hostDir) ==
    IF hostDir \notin ExistingDirs THEN ErrHostDir ELSE nil

validateVolumeCtrDir(ctrDir) ==
    IF Len(ctrDir) = 0 THEN PanicIndex
    ELSE IF ctrDir[1] # "/" THEN ErrCtrDir ELSE nil

GroupRWRO == { <<"rw">>, <<"ro">> }
GroupLabel == { <<"z">>, <<"Z">> }
GroupPropagation ==
    { <<"private">>, <<"rprivate">>, <<"shared">>, <<"rshared">>,
      <<"slave">>, <<"rslave">> }

\* the loop of validateVolumeOpts from option i on; c holds the counters
RECURSIVE OptsLoop(_, _, _)
OptsLoop(options, i, c) ==
    IF i > Len(options) THEN nil
    ELSE LET opt == options[i]
         IN  CASE opt \in GroupRWRO ->
                    IF c.foundRWRO > 1 THEN ErrOptsRWRO
                    ELSE OptsLoop(options, i + 1,
                                  [c EXCEPT !.foundRWRO = @ + 1])
               [] opt \in GroupLabel ->
                    IF c.foundLabelChange > 1 THEN ErrOptsLabel
                    ELSE OptsLoop(options, i + 1,
                                  [c EXCEPT !.foundLabelChange = @ + 1])
               [] opt \in GroupPropagation ->
                    IF c.foundRootPropagation > 1 THEN ErrOptsPropagation
                    ELSE OptsLoop(options, i + 1,
                                  [c EXCEPT !.foundRootPropagation = @ + 1])
               [] OTHER -> ErrOptType

validateVolumeOpts(option) ==
    OptsLoop(Split(option, ","), 1,
             [foundRootPropagation |-> 0, foundRWRO |-> 0,
              foundLabelChange |-> 0])

\* the body of the loop of parseVolumes for one volume
parseVolume(volume) ==
    LET arr == SplitN(volume, ":", 3)
    IN  IF Len(arr) < 2 THEN ErrVolumeFormat
        ELSE LET e1 == validateVolumeHostDir(arr[1])
                 e2 == validateVolumeCtrDir(arr[2])
             IN  IF e1 # nil THEN e1
                 ELSE IF e2 # nil THEN e2
                 ELSE IF Len(arr) > 2 THEN validateVolumeOpts(arr[3])
                 ELSE nil

RECURSIVE parseVolumesFrom(_, _)
parseVolumesFrom(vols, i) ==
    IF i > Len(vols) THEN nil
    ELSE LET e == parseVolume(vols[i])
         IN  IF e # nil THEN e ELSE parseVolumesFrom(vols, i + 1)

parseVolumes(vols) ==
    IF Len(vols) = 0 THEN nil ELSE parseVolumesFrom(vols, 1)

----------------------------------------------------------------------------
(* The volume strings the volume validator is given *)

RECURSIVE Join(_, _)
Join(parts, sep) ==
    IF Len(parts) = 0 THEN <<>>
    ELSE IF Len(parts) = 1 THEN parts[1]
    ELSE parts[1] \o <<sep>> \o Join(Tail(parts), sep)

HostDirs == { <<"/", "tmp">>, <<"/", "nonexistent">> }
CtrDirs == { <<>>, <<"/">>, <<"/", "data">>, <<"rel", "/", "path">> }
OptWords ==
    GroupRWRO \cup GroupLabel \cup GroupPropagation \cup { <<"bogus">> }

OptLists == UNION { [1..n -> OptWords] : n \in 0..MaxOpts }

VolumeStrings ==
    HostDirs
    \cup { Join(<<h, c>>, ":") : h \in HostDirs, c \in CtrDirs }
    \cup { Join(<<h, c, Join(o, ",")>>, ":") :
             h \in HostDirs, c \in CtrDirs, o \in OptLists }
    \cup { Join(<<h, c, <<"rw">>, <<"ro">>>>, ":") :
             h \in HostDirs, c \in CtrDirs }

\* a volume list whose first entries are valid, so that a later one is reached
ValidVolumes == { Join(<<<<"/", "tmp">>, <<"/", "data">>>>, ":"),
                  Join(<<<<"/", "tmp">>, <<"/", "data">>, <<"ro">>>>, ":") }

VolumeLists ==
    { <<>> } \cup { <<v>> : v \in VolumeStrings }
             \cup { <<p, v>> : p \in ValidVolumes, v \in VolumeStrings }

VolInit ==
    /\ resources = Unset
    /\ sysInfo = [c \in CapNames |-> TRUE]
    /\ update = FALSE
    /\ warnings = <<>>
    /\ err = nil
    /\ before = resources
    /\ prevWarnings = <<>>
    /\ prevErr = nil
    /\ calls = 0
    /\ volumes \in VolumeLists
    /\ volErr = "pending"

\* one call parseVolumes(volumes)
ParseVolumes ==
    /\ volErr = "pending"
    /\ volErr' = parseVolumes(volumes)
    /\ UNCHANGED <<resources, sysInfo, update, warnings, err, before,
                   prevWarnings, prevErr, calls, volumes>>

VolNext == ParseVolumes

VolSpec == VolInit /\ [][VolNext]_vars

----------------------------------------------------------------------------
(* Properties of verifyContainerResources.  They speak of the last call:   *)
(* its input is before, its results are resources, warnings and err.       *)

Called == calls > 0

Range(seq) == { seq[i] : i \in 1..Len(seq) }

Count(seq, x) == Cardinality({ i \in 1..Len(seq) : seq[i] = x })

AllPresent == \A c \in CapNames : sysInfo[c]

\* the position, in the order of the function, of the statement that
\* returns each error
ErrPos(e) ==
    CASE e = ErrMinMemory -> 1
      [] e = ErrSwapOrder -> 4
      [] e = ErrSwapWithoutMemory -> 5
      [] e = ErrSwappinessRange -> 6
      [] e = ErrMinReservation -> 8
      [] e = ErrMemoryBelowReservation -> 9
      [] e = ErrMinKernelMemory -> 11
      [] e = ErrCpuPeriodRange -> 16
      [] e = ErrCpuQuotaMin -> 18
      [] e = ErrCpusInvalid -> 20
      [] e = ErrCpusUnavailable -> 20
      [] e = ErrMemsInvalid -> 21
      [] e = ErrMemsUnavailable -> 21
      [] e = ErrBlkioWeightRange -> 23

\* the downgrades: position, warning and the fields the downgrade is of
Downgrades ==
    { [pos |-> 2, msg |-> WarnMemoryLimit, fields |-> {"memory"}],
      [pos |-> 3, msg |-> WarnSwapLimit, fields |-> {"memorySwap"}],
      [pos |-> 6, msg |-> WarnMemorySwappiness,
       fields |-> {"memorySwappiness"}],
      [pos |-> 7, msg |-> WarnMemoryReservation,
       fields |-> {"memoryReservation"}],
      [pos |-> 10, msg |-> WarnKernelMemory, fields |-> {"kernelMemory"}],
      [pos |-> 12, msg |-> WarnOomKillDisable,
       fields |-> {"disableOomKiller"}],
      [pos |-> 13, msg |-> WarnPidsLimit, fields |-> {"pidsLimit"}],
      [pos |-> 14, msg |-> WarnCPUShares, fields |-> {"cpuShares"}],
      [pos |-> 15, msg |-> WarnCPUCfsPeriod, fields |-> {"cpuPeriod"}],
      [pos |-> 17, msg |-> WarnCPUCfsQuota, fields |-> {"cpuQuota"}],
      [pos |-> 19, msg |-> WarnCpuset,
       fields |-> {"cpusetCpus", "cpusetMems"}],
      [pos |-> 22, msg |-> WarnBlkioWeight, fields |-> {"blkioWeight"}],
      [pos |-> 24, msg |-> WarnBlkioWeightDevice,
       fields |-> {"blkioWeightDevice"}],
      [pos |-> 25, msg |-> WarnBlkioReadBpsDevice,
       fields |-> {"deviceReadBps"}],
      [pos |-> 26, msg |-> WarnBlkioWriteBpsDevice,
       fields |-> {"deviceWriteBps"}],
      [pos |-> 27, msg |-> WarnBlkioReadIOpsDevice,
       fields |-> {"deviceReadIOps"}],
      [pos |-> 28, msg |-> WarnBlkioWriteIOpsDevice,
       fields |-> {"deviceWriteIOps"}] }

WarnPos(w) == (CHOOSE d \in Downgrades : d.msg = w).pos

Changed(f) == resources[f] # before[f]

\* the downgrade d fired in the last call, as seen on the fields: the swap
\* limit is also reset by the memory downgrade, which zeroes memory
Fired(d) ==
    IF d.msg = WarnSwapLimit
    THEN Changed("memorySwap") /\ ~Changed("memory")
    ELSE \E f \in d.fields : Changed(f)

SwapBelowMemory ==
    before.memory > 0 /\ before.memorySwap > 0
    /\ before.memorySwap < before.memory

\* C1 as stated: every request with memory > 0, memorySwap > 0 and
\* memorySwap < memory fails with the swap-ordering error, whatever the
\* capability report.
C1_AnySwapBelowMemoryFails ==
    (Called /\ SwapBelowMemory) => err = ErrSwapOrder

\* C1 (amended): a request with memory >= 4MiB, memorySwap > 0 and
\* memorySwap < memory, validated against a report that has the memory-limit
\* and the swap-limit capability, fails with the swap-ordering error.
C1_SwapBelowMemoryFails ==
    (Called /\ SwapBelowMemory /\ before.memory >= linuxMinMemory
        /\ sysInfo.MemoryLimit /\ sysInfo.SwapLimit)
    => err = ErrSwapOrder

C1_Witness ==
    /\ Called /\ SwapBelowMemory /\ before.memory >= linuxMinMemory
    /\ sysInfo.MemoryLimit /\ sysInfo.SwapLimit
    /\ err = ErrSwapOrder

MemoryDowngraded ==
    /\ resources.memory = 0
    /\ resources.memorySwap = -1
    /\ Count(warnings, WarnMemoryLimit) = 1

\* C2 as stated: a request with memory > 0 validated against a report
\* without the memory-limit capability returns no hard error, ends with
\* memory = 0 and memorySwap = -1, and gets exactly one memory-limit warning.
C2_AnyMemoryDowngradedNoError ==
    (Called /\ before.memory > 0 /\ ~sysInfo.MemoryLimit)
    => (err = nil /\ MemoryDowngraded)

\* C2 (amended): a request with memory >= 4MiB validated against a report
\* without the memory-limit capability ends with memory = 0 and
\* memorySwap = -1, gets exactly one memory-limit warning, and no check of
\* the memory and swap limits fails (a check of another limit still may).
C2_MemoryDowngraded ==
    (Called /\ before.memory >= linuxMinMemory /\ ~sysInfo.MemoryLimit)
    => /\ MemoryDowngraded
       /\ err \notin {ErrMinMemory, ErrSwapOrder, ErrSwapWithoutMemory,
                      ErrMemoryBelowReservation}

C2_Witness ==
    /\ Called /\ before.memory >= linuxMinMemory /\ ~sysInfo.MemoryLimit
    /\ before.memorySwap > 0
    /\ MemoryDowngraded /\ err = nil

InRange(f) ==
    CASE f \in {"memory", "memoryReservation", "kernelMemory"} ->
            resources[f] >= linuxMinMemory
      [] f = "memorySwappiness" ->
            resources[f] >= -1 /\ resources[f] <= 100
      [] f = "cpuPeriod" -> resources[f] >= 1000 /\ resources[f] <= 1000000
      [] f = "cpuQuota" -> resources[f] >= 1000
      [] f = "blkioWeight" -> resources[f] >= 10 /\ resources[f] <= 1000

CapOf(f) ==
    CASE f = "memory" -> "MemoryLimit"
      [] f = "memoryReservation" -> "MemoryReservation"
      [] f = "kernelMemory" -> "KernelMemory"
      [] f = "memorySwappiness" -> "MemorySwappiness"
      [] f = "cpuPeriod" -> "CPUCfsPeriod"
      [] f = "cpuQuota" -> "CPUCfsQuota"
      [] f = "blkioWeight" -> "BlkioWeight"

RangedFields ==
    {"memory", "memoryReservation", "kernelMemory", "memorySwappiness",
     "cpuPeriod", "cpuQuota", "blkioWeight"}

\* C5: after a call that returns no error, every range-constrained field is
\* unset, or within its legal range, or its capability is present.
C5_FieldsLegalAfterSuccess ==
    (Called /\ err = nil)
    => \A f \in RangedFields :
          resources[f] = Unset[f] \/ InRange(f) \/ sysInfo[CapOf(f)]

\* C6: when a call succeeds, the next call on the resulting limits (same
\* capability report, same update flag) succeeds, returns no warning and
\* changes no field.
C6_Idempotent ==
    (calls >= 2 /\ prevErr = nil)
    => (err = nil /\ warnings = <<>> /\ resources = before)

C6_Witness ==
    /\ calls >= 2 /\ prevErr = nil /\ Len(prevWarnings) >= 2
    /\ err = nil /\ warnings = <<>> /\ resources = before

C8_MinMemory ==
    (Called /\ before.memory > 0 /\ before.memory < linuxMinMemory)
    => err = ErrMinMemory

C8_Witness ==
    /\ Called /\ before.memory > 0 /\ before.memory < linuxMinMemory
    /\ ~sysInfo.MemoryLimit /\ update
    /\ err = ErrMinMemory

PeriodBelowFloor == before.cpuPeriod > 0 /\ before.cpuPeriod < 1000

FailsBefore(k) == err # nil /\ ErrPos(err) < k

PeriodUnsetUntouched ==
    before.cpuPeriod = 0
    => /\ err # ErrCpuPeriodRange
       /\ WarnCPUCfsPeriod \notin Range(warnings)
       /\ resources.cpuPeriod = 0

\* C9 as stated: for every capability report, a request with
\* 0 < cpuPeriod < 1000 on which no earlier check fails is rejected with the
\* cfs-period range error; and cpuPeriod = 0 gets no period error, no period
\* warning and stays 0.
C9_AnyPeriodBelowFloorFails ==
    Called =>
      /\ PeriodBelowFloor => (err = ErrCpuPeriodRange \/ FailsBefore(16))
      /\ PeriodUnsetUntouched

\* C9 (amended): for every capability report that has the cfs-period
\* capability, a request with 0 < cpuPeriod < 1000 on which no earlier check
\* fails is rejected with the cfs-period range error; and, for every report,
\* cpuPeriod = 0 gets no period error, no period warning and stays 0.
C9_PeriodBelowFloorFails ==
    Called =>
      /\ (PeriodBelowFloor /\ sysInfo.CPUCfsPeriod)
            => (err = ErrCpuPeriodRange \/ FailsBefore(16))
      /\ PeriodUnsetUntouched

C9_Witness ==
    /\ Called /\ before.cpuPeriod = 500 /\ sysInfo.CPUCfsPeriod
    /\ ~AllPresent /\ err = ErrCpuPeriodRange

\* C10: a call changes the limits if and only if it returns a warning; with
\* every capability present it changes nothing and returns no warning.
C10_MutationIffWarning ==
    Called =>
      /\ (resources # before) <=> (warnings # <<>>)
      /\ AllPresent => (resources = before /\ warnings = <<>>)

C10_Witness ==
    /\ Called /\ err # nil /\ warnings # <<>> /\ resources # before

----------------------------------------------------------------------------
(* Properties of parseVolumes *)

VolParsed == volErr # "pending"

\* a hard error value: an error is returned, the call does not panic
HardError == volErr \notin {"pending", nil, PanicIndex}

\* two options of the list come from the same mutually exclusive group
GroupConflict(option) ==
    LET options == Split(option, ",")
    IN  \E i, j \in 1..Len(options) :
           /\ i # j
           /\ \E g \in {GroupRWRO, GroupLabel, GroupPropagation} :
                 options[i] \in g /\ options[j] \in g

\* C3: a volume with an existing host dir, an absolute container dir and two
\* options of the same group makes parseVolumes return a hard error.
C3_GroupConflictRejected ==
    VolParsed =>
      \A i \in 1..Len(volumes) :
         LET arr == SplitN(volumes[i], ":", 3)
         IN  (/\ Len(arr) = 3
              /\ arr[1] \in ExistingDirs
              /\ Len(arr[2]) > 0 /\ arr[2][1] = "/"
              /\ GroupConflict(arr[3]))
             => HardError

\* C4: a volume of at least 2 parts with an existing host dir and a
\* container dir that does not start with "/" (the empty one included) makes
\* parseVolumes return a hard error value.
C4_RelativeCtrDirRejected ==
    VolParsed =>
      \A i \in 1..Len(volumes) :
         LET arr == SplitN(volumes[i], ":", 3)
         IN  (/\ Len(arr) >= 2
              /\ arr[1] \in ExistingDirs
              /\ (Len(arr[2]) = 0 \/ arr[2][1] # "/"))
             => HardError

====
